---- MODULE Spec2Model ----
(***************************************************************************)
(* Model of the portfolio chat proxy (src/main.py): one FastAPI route,     *)
(* POST /portfolio-chat, guarded by a credential dependency, a pydantic    *)
(* body validator and a slowapi rate limiter, which forwards the message   *)
(* to an upstream chat-completion API and normalises the reply; and the    *)
(* startup-time build_context that flattens the project dataset.           *)
(***************************************************************************)
EXTENDS Integers, Sequences, FiniteSets, TLC

(***************************************************************************)
(* Bounds of the model.                                                    *)
(***************************************************************************)
\* requests that can be in flight at once
NumSlots == 2
\* the limiter's counter is explored up to this value
MaxHits == 22
\* clock ticks per minute of real time (granularity of the model's clock)
TicksPerMinute == 2
\* last clock tick explored
MaxTime == 4
\* projects in a dataset
MaxProjects == 2

(***************************************************************************)
(* Program constants.                                                      *)
(***************************************************************************)
\* @limiter.limit("20/minute")
Limit == 20
\* len(v) > 1000
MaxMessageLen == 1000
\* the status codes the handlers raise
Forbidden == 403
BadGateway == 502
\* the statuses the frameworks answer with by themselves
Unprocessable == 422
TooManyRequests == 429
ServerError == 500
Ok == 200

API_KEY == "secret"
NoHeader == "<absent>"

(***************************************************************************)
(* Text.  A string is kept as its leading whitespace, its core (which      *)
(* starts and ends with a non-whitespace character, or is empty) and its   *)
(* trailing whitespace, each by length.                                    *)
(***************************************************************************)
Text(l, c, t) == [lead |-> l, core |-> c, trail |-> t]

EmptyText == Text(0, 0, 0)

\* len(v)
len(v) == v.lead + v.core + v.trail

\* str.strip(): drops the whitespace on both sides; a string of whitespace
\* only becomes the empty string
strip(v) == Text(0, v.core, 0)

(***************************************************************************)
(* Request model: ChatRequest.validate_message.                            *)
(* A body is [present, text]: present = FALSE is a body without a string   *)
(* "message" field, which pydantic rejects before the validator runs.      *)
(***************************************************************************)
Body(p, v) == [present |-> p, text |-> v]

NoBody == Body(FALSE, EmptyText)

Raise(e) == [exc |-> e, value |-> EmptyText]

Return(v) == [exc |-> "", value |-> v]

ValidateNoStrip(v) ==
    IF len(v) = 0 THEN Raise("message must not be empty")
    ELSE IF len(v) > MaxMessageLen
         THEN Raise("message must not exceed 1000 characters")
         ELSE Return(v)

validate_message(v) ==
    LET s == strip(v)
    IN  IF len(s) = 0 THEN Raise("message must not be empty")
        ELSE IF len(s) > MaxMessageLen
             THEN Raise("message must not exceed 1000 characters")
             ELSE Return(s)

\* message: str with the field validator: the errors of the body, and the
\* value of req.message when there is none
ChatRequest(body) ==
    IF ~body.present THEN Raise("Field required")
    ELSE validate_message(body.text)

(***************************************************************************)
(* Auth: verify_api_key.  "" is a normal return, otherwise the status and  *)
(* the detail of the HTTPException raised.                                 *)
(***************************************************************************)
HTTPException(status, detail) == [status |-> status, detail |-> detail]

NoException == HTTPException(0, "")

VerifyAcceptsAnyKey(x_api_key) == NoException

verify_api_key(x_api_key) ==
    IF x_api_key # API_KEY
    THEN HTTPException(Forbidden, "Could not validate credentials")
    ELSE NoException

(***************************************************************************)
(* Rate limiter: Limiter(key_func=get_remote_address), "20/minute", with   *)
(* slowapi's defaults: the fixed-window strategy over in-memory storage.   *)
(* A key's window opens at its first counted hit and lasts one minute; a   *)
(* hit increments the counter first and is allowed when the new value is   *)
(* at most the limit.                                                      *)
(***************************************************************************)
Clients == {"10.0.0.1", "10.0.0.2"}

Window == TicksPerMinute

\* key_func: the request's remote address
get_remote_address(client) == client

CounterExpiresEarly(storage, expirations, key, t) ==
    IF expirations[key] > t + 1 THEN storage[key] ELSE 0

\* the counter of a key at time t: an expired key counts as absent
Counter(storage, expirations, key, t) ==
    IF expirations[key] > t THEN storage[key] ELSE 0

IncrLosesUpdate(storage, expirations, key, t) ==
    [count  |-> Counter(storage, expirations, key, t) + 1,
     storage |-> storage,
     expirations |-> expirations]

\* the storage's increment: returns the new counter; the first hit of a
\* window sets the key's expiry
Incr(storage, expirations, key, t) ==
    LET count == Counter(storage, expirations, key, t) + 1
    IN  [count  |-> count,
         storage |-> [storage EXCEPT ![key] = count],
         expirations |-> IF count = 1
                         THEN [expirations EXCEPT ![key] = t + Window]
                         ELSE expirations]

WithinLimitOffByOne(count) == count <= Limit + 1

\* the strategy's test of the incremented counter
WithinLimit(count) == count <= Limit

(***************************************************************************)
(* Upstream replies.  A JSON value is [t, s, items, d]: its type, its      *)
(* text (a string), its elements (a list) and its members (an object).     *)
(***************************************************************************)
NoMembers == [k \in {} |-> 0]

JNull == [t |-> "null", s |-> EmptyText, items |-> <<>>, d |-> NoMembers]

JNum == [t |-> "num", s |-> EmptyText, items |-> <<>>, d |-> NoMembers]

JStr(v) == [t |-> "str", s |-> v, items |-> <<>>, d |-> NoMembers]

JList(xs) == [t |-> "list", s |-> EmptyText, items |-> xs, d |-> NoMembers]

JDict(f) == [t |-> "dict", s |-> EmptyText, items |-> <<>>, d |-> f]

\* the value of an evaluation, or the exception it raised
Value(v) == [exc |-> "", val |-> v]

Throw(e) == [exc |-> e, val |-> JNull]

\* v[k] for a string key k
GetKey(r, k) ==
    IF r.exc # "" THEN r
    ELSE IF r.val.t = "dict"
         THEN IF k \in DOMAIN r.val.d THEN Value(r.val.d[k]) ELSE Throw("KeyError")
         ELSE Throw("TypeError")

\* v[i] for an integer index i >= 0
GetIndex(r, i) ==
    IF r.exc # "" THEN r
    ELSE CASE r.val.t = "list" ->
                IF i < Len(r.val.items) THEN Value(r.val.items[i + 1])
                ELSE Throw("IndexError")
           [] r.val.t = "dict" -> Throw("KeyError")
           [] r.val.t = "str" ->
                IF i < len(r.val.s) THEN Value(JStr(Text(0, 1, 0)))
                ELSE Throw("IndexError")
           [] OTHER -> Throw("TypeError")

\* v.strip()
StripValue(r) ==
    IF r.exc # "" THEN r
    ELSE IF r.val.t = "str" THEN Value(JStr(strip(r.val.s)))
         ELSE Throw("AttributeError")

Content(v) == [content |-> v]

Message(m) == [message |-> m]

Choices(c) == [choices |-> c]

Completion(content) ==
    JDict(Choices(JList(<<JDict(Message(JDict(Content(content))))>>)))

\* the bodies an upstream reply can carry; 0 is a body that is not JSON
Payloads == 0 .. 12

Payload(i) ==
    CASE i = 1 -> Completion(JStr(Text(1, 7, 1)))
      [] i = 2 -> JDict(NoMembers)
      [] i = 3 -> JDict(Choices(JList(<<>>)))
      [] i = 4 -> JDict(Choices(JDict(NoMembers)))
      [] i = 5 -> JDict(Choices(JNull))
      [] i = 6 -> JDict(Choices(JStr(Text(0, 2, 0))))
      [] i = 7 -> JDict(Choices(JList(<<JDict(NoMembers)>>)))
      [] i = 8 -> JDict(Choices(JList(<<JDict(Message(JDict(NoMembers)))>>)))
      [] i = 9 -> Completion(JNull)
      [] i = 10 -> Completion(JNum)
      [] i = 11 -> JList(<<>>)
      [] i = 12 -> Completion(JStr(Text(0, 0, 2)))
      [] OTHER -> JNull

\* response.json()
Json(i) == IF i = 0 THEN Throw("JSONDecodeError") ELSE Value(Payload(i))

\* response.json()["choices"][0]["message"]["content"].strip()
Reply(i) ==
    StripValue(GetKey(GetKey(GetIndex(GetKey(Json(i), "choices"), 0),
                             "message"), "content"))

\* the upstream's answer to one call: a transport failure (exc), or an
\* HTTP status with a body
Outcome(exc, status, payload) == [exc |-> exc, status |-> status, payload |-> payload]

NoOutcome == Outcome("", 0, 0)

TransportErrors == {"ConnectError", "ConnectTimeout", "ReadTimeout"}

\* the upstream answers explored: every transport failure, every body
\* under 200, and other statuses with two different bodies
Outcomes ==
    {Outcome(e, 0, 0) : e \in TransportErrors}
      \cup {Outcome("", 200, p) : p \in Payloads}
      \cup {Outcome("", st, p) : st \in {201, 302, 404, 500}, p \in {1, 2}}

IsSuccessBelow400(status) == 200 <= status /\ status <= 399

\* response.raise_for_status(): every status outside 2xx raises
is_success(status) == 200 <= status /\ status <= 299

\* except (KeyError, IndexError)
CaughtShapeErrors == {"KeyError", "IndexError"}

(***************************************************************************)
(* State.                                                                  *)
(***************************************************************************)
VARIABLES
    now,          \* the clock the limiter reads
    storage,      \* limiter storage: the counter of each key
    expirations,  \* limiter storage: the expiry of each key
    slots,        \* the requests in flight
    last,         \* the most recent response sent
    calls,        \* history: per client, upstream calls issued in its window
    denied,       \* history: per client, 429 answers in its window
    received,     \* history: per client, requests handled since start
    admitLog,     \* history: per client, upstream calls of the last ticks
    projects,     \* the dataset loaded at startup
    CONTEXT       \* build_context(projects), once built

program == <<now, storage, expirations, slots, last>>

history == <<calls, denied, received, admitLog>>

startup == <<projects, CONTEXT>>

vars == <<now, storage, expirations, slots, last, calls, denied, received,
          admitLog, projects, CONTEXT>>

Slots == 1 .. NumSlots

IdleSlot ==
    [stage |-> "idle", client |-> "", key |-> NoHeader, body |-> NoBody,
     message |-> EmptyText]

Response(client, key, body, status, detail, reply, outcome) ==
    [client |-> client, key |-> key, body |-> body, status |-> status,
     detail |-> detail, reply |-> reply, outcome |-> outcome]

NoResponse == Response("", NoHeader, NoBody, 0, <<>>, EmptyText, NoOutcome)

\* the error FastAPI lists for a required header that is absent
HeaderErrors(x_api_key) ==
    IF x_api_key = NoHeader THEN <<"header.x-api-key: Field required">> ELSE <<>>

\* the error FastAPI lists for a body the request model rejects
BodyErrors(req) ==
    CASE req.exc = "" -> <<>>
      [] req.exc = "Field required" -> <<"body.message: Field required">>
      [] req.exc = "message must not be empty" ->
            <<"body.message: Value error, message must not be empty">>
      [] OTHER ->
            <<"body.message: Value error, message must not exceed 1000 characters">>

(***************************************************************************)
(* Operations.                                                             *)
(***************************************************************************)
\* a client connects and posts to /portfolio-chat
Receive(s, client) ==
    /\ slots[s].stage = "idle"
    /\ slots' = [slots EXCEPT ![s] = [IdleSlot EXCEPT !.stage = "pending",
                                                      !.client = client]]
    /\ UNCHANGED <<now, storage, expirations, last>>

\* the response leaves and the request's slot is free again
Respond(s, key, body, status, detail, reply, outcome) ==
    /\ last' = Response(slots[s].client, key, body, status, detail, reply, outcome)
    /\ slots' = [slots EXCEPT ![s] = IdleSlot]

\* the limiter's check in front of chat: one hit on the client's key; the
\* request goes on to the upstream call or is answered 429
CheckRequestLimit(s, key, body, message) ==
    LET hit == Incr(storage, expirations, get_remote_address(slots[s].client), now)
    IN  /\ hit.count <= MaxHits
        /\ storage' = hit.storage
        /\ expirations' = hit.expirations
        /\ IF WithinLimit(hit.count)
           THEN /\ slots' = [slots EXCEPT ![s] =
                       [stage |-> "upstream", client |-> slots[s].client,
                        key |-> key, body |-> body, message |-> message]]
                /\ UNCHANGED last
           ELSE Respond(s, key, body, TooManyRequests,
                        <<"Rate limit exceeded: 20 per 1 minute">>, EmptyText,
                        NoOutcome)

DispatchLimitsFirst(s, key, body) ==
    LET auth == IF key = NoHeader THEN NoException ELSE verify_api_key(key)
        req == ChatRequest(body)
        errors == HeaderErrors(key) \o BodyErrors(req)
        hit == Incr(storage, expirations, get_remote_address(slots[s].client), now)
    IN  /\ slots[s].stage = "pending"
        /\ hit.count <= MaxHits
        /\ storage' = hit.storage
        /\ expirations' = hit.expirations
        /\ UNCHANGED now
        /\ IF ~WithinLimit(hit.count)
           THEN Respond(s, key, body, TooManyRequests,
                        <<"Rate limit exceeded: 20 per 1 minute">>, EmptyText,
                        NoOutcome)
           ELSE IF auth.status # 0
                THEN Respond(s, key, body, auth.status, <<auth.detail>>, EmptyText,
                             NoOutcome)
                ELSE IF errors # <<>>
                     THEN Respond(s, key, body, Unprocessable, errors, EmptyText,
                                  NoOutcome)
                     ELSE /\ slots' = [slots EXCEPT ![s] =
                                 [stage |-> "upstream", client |-> slots[s].client,
                                  key |-> key, body |-> body, message |-> req.value]]
                          /\ UNCHANGED last

\* the route up to its await of the upstream call: the framework resolves
\* the dependency (verify_api_key, when its header is there), validates the
\* body, and only then calls the endpoint, which the limiter wraps
Dispatch(s, key, body) ==
    LET auth == IF key = NoHeader THEN NoException ELSE verify_api_key(key)
        req == ChatRequest(body)
        errors == HeaderErrors(key) \o BodyErrors(req)
    IN  /\ slots[s].stage = "pending"
        /\ UNCHANGED now
        /\ IF auth.status # 0
           THEN /\ Respond(s, key, body, auth.status, <<auth.detail>>, EmptyText,
                           NoOutcome)
                /\ UNCHANGED <<storage, expirations>>
           ELSE IF errors # <<>>
                THEN /\ Respond(s, key, body, Unprocessable, errors, EmptyText,
                                NoOutcome)
                     /\ UNCHANGED <<storage, expirations>>
                ELSE CheckRequestLimit(s, key, body, req.value)

\* the rest of chat, once the upstream call has ended with outcome o
Complete(s, o) ==
    LET r == Reply(o.payload)
        answer(status, detail, reply) ==
            Respond(s, slots[s].key, slots[s].body, status, detail, reply, o)
    IN  /\ slots[s].stage = "upstream"
        /\ UNCHANGED <<now, storage, expirations>>
        /\ IF o.exc # ""
           THEN answer(BadGateway, <<"Upstream request failed">>, EmptyText)
           ELSE IF ~is_success(o.status)
                THEN answer(BadGateway, <<"Upstream API error">>, EmptyText)
                ELSE IF r.exc = ""
                     THEN answer(Ok, <<>>, r.val.s)
                     ELSE IF r.exc \in CaughtShapeErrors
                          THEN answer(BadGateway, <<"Unexpected upstream response">>,
                                      EmptyText)
                          ELSE answer(ServerError, <<"Internal Server Error">>,
                                      EmptyText)

\* time passes
Tick ==
    /\ now < MaxTime
    /\ now' = now + 1
    /\ UNCHANGED <<storage, expirations, slots, last>>

(***************************************************************************)
(* Grounding context: _strip_html and build_context.  A string is a        *)
(* sequence of pieces: single characters ("x", " ", "<", ">", the line     *)
(* break "\n") and the literal words the builder emits ("Project:", ...),  *)
(* which a field of the dataset can hold as well.                          *)
(***************************************************************************)
RECURSIVE IndexOf(_, _, _)
\* the first position >= i of piece c in text, or 0
IndexOf(text, c, i) ==
    IF i > Len(text) THEN 0
    ELSE IF text[i] = c THEN i ELSE IndexOf(text, c, i + 1)

RECURSIVE StripFrom(_, _)
\* re.sub(r"<[^>]+>", "", text) from position i on: a "<" followed by at
\* least one piece other than ">" and then a ">" is dropped with all between
StripFrom(text, i) ==
    IF i > Len(text) THEN <<>>
    ELSE LET close == IndexOf(text, ">", i + 1)
         IN  IF text[i] = "<" /\ close > i + 1
             THEN StripFrom(text, close + 1)
             ELSE <<text[i]>> \o StripFrom(text, i + 1)

_strip_html(text) == StripFrom(text, 1)

RECURSIVE Join(_, _)
\* sep.join(parts)
Join(parts, sep) ==
    IF parts = <<>> THEN <<>>
    ELSE IF Len(parts) = 1 THEN parts[1]
         ELSE parts[1] \o sep \o Join(Tail(parts), sep)

RECURSIVE Flatten(_)
Flatten(xss) == IF xss = <<>> THEN <<>> ELSE xss[1] \o Flatten(Tail(xss))

\* the URL lines of one url_group: only the items that are lists
UrlGroupLines(group) ==
    Flatten([k \in 1 .. Len(group) |->
                IF group[k].isList
                THEN << <<"URL:", " ">> \o group[k].url \o <<" ", "->", " ">>
                          \o group[k].label >>
                ELSE <<>>])

\* the lines build_context appends for project p
ProjectLines(p) ==
    << <<"Project:", " ">> \o p.name, <<"Slug:", " ">> \o p.slug >>
      \o (IF p.stack # <<>>
          THEN << <<"Stack:", " ">> \o Join(p.stack, <<",", " ">>) >>
          ELSE <<>>)
      \o Flatten([g \in 1 .. Len(p.projectUrls) |-> UrlGroupLines(p.projectUrls[g])])
      \o << <<"Description:", " ">> \o _strip_html(p.content), <<"---">> >>

build_context(ps) ==
    Join(Flatten([i \in 1 .. Len(ps) |-> ProjectLines(ps[i])]), <<"\n">>)

RECURSIVE SplitLines(_, _)
\* text.split("\n"), with cur the line read so far
SplitLines(text, cur) ==
    IF text = <<>> THEN <<cur>>
    ELSE IF Head(text) = "\n" THEN <<cur>> \o SplitLines(Tail(text), <<>>)
         ELSE SplitLines(Tail(text), Append(cur, Head(text)))

\* the lines of a text that begin with "Project:"
ProjectHeadings(text) ==
    SelectSeq(SplitLines(text, <<>>), LAMBDA l : l # <<>> /\ l[1] = "Project:")

\* the datasets explored
Names == { <<"x">>, <<"None">>, <<"Project:", " ", "x">>, <<"x", "\n", "x">> }

ArticleContents ==
    { <<>>, <<"<", "x", ">", "x", "<", "x", ">">>, <<"x", "\n", "x">>,
      <<"x", "\n", "Project:", " ", "x">>, <<"x", "\n", "<", "x", ">", "Project:">>,
      <<"<", ">", "x">>, <<"<", "<", "x", ">", ">">> }

Stacks == { <<>>, << <<"x">>, <<"x">> >> }

UrlItem(isList, label, url) == [isList |-> isList, label |-> label, url |-> url]

ProjectUrls ==
    { <<>>,
      << << UrlItem(TRUE, <<"x">>, <<"x">>), UrlItem(FALSE, <<>>, <<>>) >> >> }

Projects ==
    [name : Names, slug : {<<"x">>}, stack : Stacks, projectUrls : ProjectUrls,
     content : ArticleContents]

Datasets == UNION {[1 .. n -> Projects] : n \in 0 .. MaxProjects}

Unbuilt == [built |-> FALSE, text |-> <<>>]

\* startup: CONTEXT = build_context(projects)
LoadContext ==
    /\ ~CONTEXT.built
    /\ CONTEXT' = [built |-> TRUE, text |-> build_context(projects)]
    /\ UNCHANGED projects

(***************************************************************************)
(* History: what an observer of the limiter counts.                        *)
(***************************************************************************)
\* the request in slot s was passed on to the upstream call
Admitted(s) == slots'[s].stage = "upstream"

\* the request in slot s was answered 429
Denied(s) == slots'[s].stage = "idle" /\ last'.status = TooManyRequests

\* upstream calls and 429 answers of the client's current window
ObserveWindow(s) ==
    LET c == slots[s].client
        fresh == Counter(storage, expirations, c, now) = 0
        was(f) == IF fresh THEN 0 ELSE f[c]
    IN  IF Admitted(s) \/ Denied(s)
        THEN /\ calls' = [calls EXCEPT ![c] = was(calls) + (IF Admitted(s) THEN 1 ELSE 0)]
             /\ denied' = [denied EXCEPT ![c] = was(denied) + (IF Denied(s) THEN 1 ELSE 0)]
        ELSE UNCHANGED <<calls, denied>>

\* requests handled since start
ObserveReceived(s) ==
    /\ received[slots[s].client] < MaxHits
    /\ received' = [received EXCEPT ![slots[s].client] = @ + 1]

\* upstream calls per tick, for the ticks now - Window .. now
ObserveAdmitted(s) ==
    IF Admitted(s)
    THEN admitLog' = [admitLog EXCEPT ![slots[s].client][Window + 1] = @ + 1]
    ELSE UNCHANGED admitLog

ShiftLog == admitLog' = [c \in Clients |-> Tail(admitLog[c]) \o <<0>>]

RECURSIVE Sum(_)
Sum(xs) == IF xs = <<>> THEN 0 ELSE Head(xs) + Sum(Tail(xs))

(***************************************************************************)
(* Inputs.                                                                 *)
(***************************************************************************)
Keys == {API_KEY, "wrong", NoHeader}

Bodies ==
    {NoBody, Body(TRUE, EmptyText), Body(TRUE, Text(1, 0, 1)),
     Body(TRUE, Text(0, 1, 0)), Body(TRUE, Text(1, 1000, 1)),
     Body(TRUE, Text(0, 1001, 0))}

Hello == Body(TRUE, Text(0, 1, 0))

Answer == Outcome("", 200, 1)

(***************************************************************************)
(* Specifications.                                                         *)
(***************************************************************************)
InitProgram ==
    /\ now = 0
    /\ storage = [c \in Clients |-> 0]
    /\ expirations = [c \in Clients |-> 0]
    /\ slots = [s \in Slots |-> IdleSlot]
    /\ last = NoResponse

InitHistory ==
    /\ calls = [c \in Clients |-> 0]
    /\ denied = [c \in Clients |-> 0]
    /\ received = [c \in Clients |-> 0]
    /\ admitLog = [c \in Clients |-> [k \in 1 .. Window + 1 |-> 0]]

\* the service is up: the context was built from the dataset at startup
Init ==
    /\ InitProgram
    /\ InitHistory
    /\ projects = <<>>
    /\ CONTEXT = [built |-> TRUE, text |-> build_context(<<>>)]

\* Spec: one client address, any header, body and upstream answer, requests
\* in flight side by side
ReceiveRequest ==
    \E s \in Slots :
        Receive(s, "10.0.0.1") /\ UNCHANGED <<history, startup>>

DispatchRequest ==
    \E s \in Slots, key \in Keys, body \in Bodies :
        /\ Dispatch(s, key, body)
        /\ ObserveWindow(s)
        /\ UNCHANGED <<received, admitLog, startup>>

CompleteRequest ==
    \E s \in Slots, o \in Outcomes :
        Complete(s, o) /\ UNCHANGED <<history, startup>>

Next == ReceiveRequest \/ DispatchRequest \/ CompleteRequest

Spec == Init /\ [][Next]_vars

\* SpecClients: two client addresses, one request at a time
ReceiveFromAny ==
    \E c \in Clients : Receive(1, c) /\ UNCHANGED <<history, startup>>

DispatchFromAny ==
    \E key \in Keys, body \in {Hello, Body(TRUE, EmptyText)} :
        /\ Dispatch(1, key, body)
        /\ ObserveWindow(1)
        /\ UNCHANGED <<received, admitLog, startup>>

CompleteFromAny == Complete(1, Answer) /\ UNCHANGED <<history, startup>>

NextClients == ReceiveFromAny \/ DispatchFromAny \/ CompleteFromAny

SpecClients == Init /\ [][NextClients]_vars

\* SpecRate: one client address under the clock, every request counted
ReceiveTimed == Receive(1, "10.0.0.1") /\ UNCHANGED <<history, startup>>

DispatchTimed ==
    \E key \in {API_KEY, "wrong"}, body \in {Hello, Body(TRUE, EmptyText)} :
        /\ Dispatch(1, key, body)
        /\ ObserveWindow(1)
        /\ ObserveReceived(1)
        /\ UNCHANGED <<admitLog, startup>>

CompleteTimed == Complete(1, Answer) /\ UNCHANGED <<history, startup>>

TickTimed == Tick /\ UNCHANGED <<history, startup>>

NextRate == ReceiveTimed \/ DispatchTimed \/ CompleteTimed \/ TickTimed

SpecRate == Init /\ [][NextRate]_vars

\* SpecBurst: one client address under the clock, sending valid requests
\* only, its upstream calls logged per tick
ReceiveBurst == Receive(1, "10.0.0.1") /\ UNCHANGED <<history, startup>>

DispatchBurst ==
    /\ Dispatch(1, API_KEY, Hello)
    /\ ObserveAdmitted(1)
    /\ UNCHANGED <<calls, denied, received, startup>>

CompleteBurst == Complete(1, Answer) /\ UNCHANGED <<history, startup>>

TickBurst == Tick /\ ShiftLog /\ UNCHANGED <<calls, denied, received, startup>>

NextBurst == ReceiveBurst \/ DispatchBurst \/ CompleteBurst \/ TickBurst

SpecBurst == Init /\ [][NextBurst]_vars

\* SpecStartup: the process starts on some dataset and builds the context
InitStartup ==
    /\ InitProgram
    /\ InitHistory
    /\ projects \in Datasets
    /\ CONTEXT = Unbuilt

NextStartup == LoadContext /\ UNCHANGED <<program, history>>

SpecStartup == InitStartup /\ [][NextStartup]_vars

(***************************************************************************)
(* Properties.                                                             *)
(***************************************************************************)
\* a body whose message is non-empty after trimming and at most 1000 long
Acceptable(body) ==
    /\ body.present
    /\ body.text.core >= 1
    /\ body.text.core <= 1000

MessageErrors ==
    {"body.message: Value error, message must not be empty",
     "body.message: Value error, message must not exceed 1000 characters"}

\* the response r reports that the validator rejected the message
MessageRejected(r) == \E i \in DOMAIN r.detail : r.detail[i] \in MessageErrors

\* the response r answers a request that got as far as the upstream call
Called(r) == r.outcome # NoOutcome

\* C1: the upstream call is issued only for a request whose x-api-key header
\* is present and equal to API_KEY and whose message passed validation; the
\* message sent upstream is the trimmed one
C1_UpstreamOnlyWhenAuthorizedAndValid ==
    /\ \A s \in Slots :
          slots[s].stage = "upstream" =>
              /\ slots[s].key = API_KEY
              /\ Acceptable(slots[s].body)
              /\ slots[s].message = Text(0, slots[s].body.text.core, 0)
    /\ Called(last) => last.key = API_KEY /\ Acceptable(last.body)

\* a request with a wrong key was answered 403 while another one, with the
\* right key, is at the upstream call
C1_Witness ==
    /\ last.key = "wrong"
    /\ last.status = Forbidden
    /\ \E s \in Slots : slots[s].stage = "upstream"

\* C2: a request whose x-api-key header is absent or differs from API_KEY is
\* answered 403 with the same generic body in both cases
C2_AbsentOrWrongKeyIsForbidden ==
    (last # NoResponse /\ last.key # API_KEY) =>
        /\ last.status = Forbidden
        /\ last.detail = <<"Could not validate credentials">>

TransportFailure(o) == o.exc # ""

StatusFailure(o) == o.exc = "" /\ o.status # 0 /\ (o.status < 200 \/ o.status > 299)

\* C6: when the upstream call fails, by its status or in transport, the
\* endpoint answers 502 with a message fixed for the kind of failure,
\* whatever the upstream body is
C6_UpstreamFailureIs502 ==
    /\ TransportFailure(last.outcome) =>
          /\ last.status = BadGateway
          /\ last.detail = <<"Upstream request failed">>
          /\ last.reply = EmptyText
    /\ StatusFailure(last.outcome) =>
          /\ last.status = BadGateway
          /\ last.detail = <<"Upstream API error">>
          /\ last.reply = EmptyText

\* the upstream answered 500 with a body that would have parsed as a reply
C6_Witness ==
    /\ last.outcome = Outcome("", 500, 1)
    /\ last.status = BadGateway

\* the bodies whose shape is not that of a completion
Malformed == {0, 2, 3, 4, 5, 6, 7, 8, 9, 10, 11}

\* C7: a success status with a body of unexpected shape is answered 502
C7_MalformedPayloadIs502 ==
    (last.outcome.exc = "" /\ last.outcome.status = 200
        /\ last.outcome.payload \in Malformed) => last.status = BadGateway

\* C9: however the requests of a client interleave, at most 20 of those that
\* hit the limiter in one window go on to the upstream call, every further
\* one is answered 429, and no hit is lost from the counter
C9_AtMostLimitAdmitted ==
    \A c \in Clients :
        /\ calls[c] <= Limit
        /\ calls[c] + denied[c] = storage[c]
        /\ denied[c] > 0 => calls[c] = Limit

\* a request is answered 429 while another one of the same client is still
\* waiting for the upstream
C9_Witness ==
    /\ last.status = TooManyRequests
    /\ \E s \in Slots :
          slots[s].stage = "upstream" /\ slots[s].client = last.client
    /\ calls[last.client] = Limit

\* C10: a request rejected by validation or by the credential check leaves
\* the limiter's counter as it was, so a 429 is only ever answered to a
\* client whose 20 upstream calls of the window were really made
C10_RejectedLeavesCounter ==
    /\ [](last.status = TooManyRequests => calls[last.client] = Limit)
    /\ [][\A s \in Slots :
             (/\ slots[s].stage = "pending"
              /\ slots'[s].stage = "idle"
              /\ last'.status \in {Forbidden, Unprocessable})
                 => (storage' = storage /\ expirations' = expirations)]_vars

\* a client whose counter stands at the limit had a request refused for its
\* key, and the counter still stands at the limit
C10_Witness ==
    /\ last.status = Forbidden
    /\ storage[last.client] = Limit
    /\ \E c \in Clients : c # last.client /\ storage[c] > 0

\* C4 as stated: of any 21 requests of a client within 60 seconds, at least
\* one is answered 429
C4_Any21RequestsSee429 ==
    \A c \in Clients :
        (now < Window /\ received[c] >= Limit + 1) => denied[c] >= 1

\* C4 as amended: of 21 requests of a client that pass validation and the
\* credential check within one window of the limiter, at least one is
\* answered 429
C4_21CountedRequestsSee429 ==
    \A c \in Clients :
        calls[c] + denied[c] >= Limit + 1 => denied[c] >= 1

\* in a window that is not the first, after requests that were rejected at
\* the gate, the 21st counted request was answered 429
C4_Witness ==
    \E c \in Clients :
        /\ calls[c] = Limit
        /\ denied[c] = 1
        /\ received[c] > Limit + 1
        /\ now >= Window

\* C5 as stated: within any 60 seconds at most 21 requests of a client are
\* passed on to the upstream
C5_AtMostLimitPlusOne == \A c \in Clients : Sum(admitLog[c]) <= Limit + 1

\* C5 as amended: within any 60 seconds at most 40 requests of a client,
\* twice the limit, are passed on to the upstream
C5_AtMostTwiceLimit == \A c \in Clients : Sum(admitLog[c]) <= 2 * Limit

\* 21 or more upstream calls within 60 seconds: the window's 20th call and
\* the calls of the window that follows
C5_Witness ==
    \E c \in Clients :
        /\ Sum(admitLog[c]) > Limit + 1
        /\ admitLog[c][Window + 1] > 0
        /\ storage[c] = admitLog[c][Window + 1]

\* the first line of a text
FirstLine(text) == SplitLines(text, <<>>)[1]

\* C8: the context holds exactly one line beginning with "Project:" per
\* project of the dataset, in the order of the dataset
C8_OneProjectLinePerProject ==
    CONTEXT.built =>
        LET hs == ProjectHeadings(CONTEXT.text)
        IN  /\ Len(hs) = Len(projects)
            /\ \A i \in 1 .. Len(projects) :
                  hs[i] = FirstLine(<<"Project:", " ">> \o projects[i].name)

====
